---- MODULE Spec2Model ----
(***************************************************************************)
(* Model of the IurisLab / LEX Juris prototype service (src/src/app.py):   *)
(* the prompt builder construir_prompt, the in-memory session store        *)
(* SESIONES with crear_sesion / registrar_consulta, and the request        *)
(* handlers analizar, analizar_json, analizar_lote, analizar_sesion,       *)
(* ver_sesion and home.                                                    *)
(***************************************************************************)
EXTENDS Integers, Sequences, FiniteSets, TLC

(***************************************************************************)
(* Python str values.  A string is kept in run-length form: a sequence of  *)
(* runs <<c, n>> (character c repeated n > 0 times) in which adjacent runs *)
(* have different characters.  The form is canonical, so two strings are   *)
(* equal exactly when their run sequences are equal, and a text of several *)
(* thousand characters stays small.  A fixed literal of a prompt template  *)
(* is one run of length 1 whose "character" names the literal, the line    *)
(* breaks around it are kept as "\n" characters.                           *)
(***************************************************************************)

Min(a, b) == IF a <= b THEN a ELSE b

\* The empty string "".
Vacio == <<>>

\* A string of n copies of the character c.
Rep(c, n) == IF n = 0 THEN <<>> ELSE << <<c, n>> >>

\* The line break "\n".
NL == Rep("\n", 1)

\* A literal block of a template, e.g. lines 65-71 of app.py.
Lit(nombre) == Rep(nombre, 1)

\* len(s)
RECURSIVE PyLen(_)
PyLen(s) == IF s = <<>> THEN 0 ELSE s[1][2] + PyLen(Tail(s))

\* s followed by n copies of c, in canonical form.
Push(s, c, n) ==
  IF n = 0 THEN s
  ELSE IF s # <<>> /\ s[Len(s)][1] = c
       THEN [s EXCEPT ![Len(s)] = <<c, s[Len(s)][2] + n>>]
       ELSE Append(s, <<c, n>>)

\* s + t
RECURSIVE Cat(_, _)
Cat(s, t) == IF t = <<>> THEN s ELSE Cat(Push(s, t[1][1], t[1][2]), Tail(t))

\* The concatenation of the pieces of an f-string, in order.
RECURSIVE CatAll(_)
CatAll(ps) == IF ps = <<>> THEN <<>> ELSE Cat(ps[1], CatAll(Tail(ps)))

\* s[:k] for k >= 0: the first min(k, len(s)) characters of s.
RECURSIVE PySlice(_, _)
PySlice(s, k) ==
  IF s = <<>> \/ k <= 0 THEN <<>>
  ELSE IF s[1][2] >= k THEN << <<s[1][1], k>> >>
       ELSE <<s[1]>> \o PySlice(Tail(s), k - s[1][2])

\* The characters str.strip() removes.
Blancos == {" ", "\n", "\t"}

RECURSIVE LStrip(_)
LStrip(s) == IF s # <<>> /\ s[1][1] \in Blancos THEN LStrip(Tail(s)) ELSE s

RECURSIVE RStrip(_)
RStrip(s) ==
  IF s # <<>> /\ s[Len(s)][1] \in Blancos
  THEN RStrip(SubSeq(s, 1, Len(s) - 1)) ELSE s

\* s.strip()
PyStrip(s) == RStrip(LStrip(s))

\* s.endswith(t)
PyEndsWith(s, t) ==
  LET n == PyLen(s) - PyLen(t)
  IN  n >= 0 /\ Cat(PySlice(s, n), t) = s

\* p is a prefix of s.
EsPrefijo(p, s) ==
  \/ p = <<>>
  \/ /\ Len(p) <= Len(s)
     /\ \A j \in 1..(Len(p) - 1) : p[j] = s[j]
     /\ p[Len(p)][1] = s[Len(p)][1]
     /\ p[Len(p)][2] <= s[Len(p)][2]

\* Optional[str]: None, or a string.
None == [some |-> FALSE]
Some(s) == [some |-> TRUE, v |-> s]

\* Python truthiness of an Optional[str]: None and "" are falsy.
Truthy(o) == o.some /\ o.v # <<>>

(***************************************************************************)
(* Program constants.                                                      *)
(***************************************************************************)
MAX_CHARS_SENTENCIA == 6000
MAX_FILES_LOTE == 10

(***************************************************************************)
(* construir_prompt (app.py 60-145).  Every template is a triple-quoted    *)
(* f-string: it opens with a line break, and the line break before the     *)
(* closing quotes follows {texto}.                                         *)
(***************************************************************************)

\* "otro" without a usable question (app.py 121-125): a fixed string.
PromptSinPregunta == CatAll(<<NL, Lit("[otro sin pregunta: l.123-124]"), NL>>)

\* Variant of Plantilla that puts {texto} before the instructions.
PlantillaTextoPrimero(cabecera, texto) ==
  CatAll(<<NL, texto, NL, Lit(cabecera), NL>>)

\* The shape shared by the templates that embed the text: a line break, the
\* instructions up to "SENTENCIA:", a line break, {texto}, a line break.
Plantilla(cabecera, texto) == CatAll(<<NL, Lit(cabecera), NL, texto, NL>>)

\* if not pregunta or not pregunta.strip() (121)
SinPregunta(pregunta) == ~Truthy(pregunta) \/ PyStrip(pregunta.v) = <<>>

construir_prompt(tipo, texto, pregunta) ==
  CASE tipo = "sujetos" -> Plantilla("[sujetos: l.65-71]", texto)
    [] tipo = "ratio" -> Plantilla("[ratio: l.77-84]", texto)
    [] tipo = "normativa" -> Plantilla("[normativa: l.90-95]", texto)
    [] tipo = "fallo" -> Plantilla("[fallo: l.101-105]", texto)
    [] tipo = "consecuencia" -> Plantilla("[consecuencia: l.111-116]", texto)
    [] tipo = "otro" ->
         IF SinPregunta(pregunta)
         THEN PromptSinPregunta
         ELSE Cat(CatAll(<<NL, Lit("[otro: l.127-132]"), NL, pregunta.v, NL>>),
                  Plantilla("SENTENCIA:", texto))
    [] OTHER -> Plantilla("[general: l.141-143]", texto)

(***************************************************************************)
(* Bounds of the model.                                                    *)
(***************************************************************************)
\* Requests in progress at the same time (SpecConc).
NumReqs == 2
\* Requests received in one run of the server.
MaxPeticiones == 3
\* Files of the longest batch (SpecLote): one more than MAX_FILES_LOTE.
MaxLote == 11
\* Direct calls of the store operations in one run (SpecStore).
MaxOps == 4
\* Characters by which the long document exceeds MAX_CHARS_SENTENCIA.
Exceso == 1

Reqs == 1..NumReqs

(***************************************************************************)
(* State.                                                                  *)
(***************************************************************************)
VARIABLES
  SESIONES,    \* app.py 28: session id -> session record
  pet,         \* the requests in progress: slot -> locals and position
  emitidos,    \* number of identifiers uuid4() has returned
  reloj,       \* datetime.utcnow(), as a logical clock: each reading is later
  llamadas,    \* number of calls made to the provider
  peticiones,  \* number of requests received
  bitacora,    \* history variable: the store operations performed, in order
  entrada,     \* SpecPrompt: the arguments of a construir_prompt call
  salida       \* SpecPrompt: its result, None before the call

vars == <<SESIONES, pet, emitidos, reloj, llamadas, peticiones, bitacora,
          entrada, salida>>

\* A slot that handles no request.
Libre == [pc |-> "idle"]

\* The state after the module is loaded (app.py 17-28).
Arranque ==
  /\ SESIONES = <<>>
  /\ pet = [r \in Reqs |-> Libre]
  /\ emitidos = 0
  /\ reloj = 0
  /\ llamadas = 0
  /\ peticiones = 0
  /\ bitacora = <<>>
  /\ salida = None

Init ==
  /\ Arranque
  /\ entrada = [tipo |-> "general", texto |-> Vacio, pregunta |-> None]

(***************************************************************************)
(* The session store (app.py 164-184).                                     *)
(***************************************************************************)


\* Variant of uuid4 (below) that returns the identifier it returned last.
uuid4_repetido == IF emitidos = 0 THEN emitidos + 1 ELSE emitidos

\* Variant of crear_sesion that rebinds SESIONES to a dict of one session.
crear_sesion_unica(S, session_id, ahora, texto_sentencia, nombre_archivo) ==
  [x \in {session_id} |->
     [created_at |-> ahora, archivo |-> nombre_archivo,
      texto_sentencia |-> texto_sentencia, consultas |-> <<>>]]

\* str(uuid4()): an identifier never returned before.
uuid4 == emitidos + 1

\* crear_sesion's assignment SESIONES[session_id] = {...} at time ahora.
crear_sesion(S, session_id, ahora, texto_sentencia, nombre_archivo) ==
  [x \in DOMAIN S \cup {session_id} |->
     IF x = session_id
     THEN [created_at |-> ahora, archivo |-> nombre_archivo,
           texto_sentencia |-> texto_sentencia, consultas |-> <<>>]
     ELSE S[x]]

\* Variant of registrar_consulta that inserts at the front.
registrar_consulta_alreves(S, session_id, ahora, tipo_analisis, pregunta, resultado) ==
  IF session_id \in DOMAIN S
  THEN [S EXCEPT ![session_id].consultas =
          << [timestamp |-> ahora, tipo_analisis |-> tipo_analisis,
              pregunta |-> pregunta, resultado |-> resultado] >> \o @]
  ELSE S

\* Variant of registrar_consulta that creates the session of an unknown id.
registrar_consulta_crea(S, session_id, ahora, tipo_analisis, pregunta, resultado) ==
  LET q == [timestamp |-> ahora, tipo_analisis |-> tipo_analisis,
            pregunta |-> pregunta, resultado |-> resultado]
  IN  IF session_id \in DOMAIN S
      THEN [S EXCEPT ![session_id].consultas = Append(@, q)]
      ELSE [x \in DOMAIN S \cup {session_id} |->
              IF x = session_id
              THEN [created_at |-> ahora, archivo |-> "", texto_sentencia |-> Vacio,
                    consultas |-> <<q>>]
              ELSE S[x]]

\* registrar_consulta at time ahora: appends when the id is known, and does
\* nothing otherwise.
registrar_consulta(S, session_id, ahora, tipo_analisis, pregunta, resultado) ==
  IF session_id \in DOMAIN S
  THEN [S EXCEPT ![session_id].consultas =
          Append(@, [timestamp |-> ahora, tipo_analisis |-> tipo_analisis,
                     pregunta |-> pregunta, resultado |-> resultado])]
  ELSE S

\* The entries of the history variable.
OpCrear(id, texto, archivo) ==
  [op |-> "crear", session_id |-> id, texto |-> texto, archivo |-> archivo]
OpRegistrar(id, tipo, pregunta, resultado) ==
  [op |-> "registrar", session_id |-> id, tipo_analisis |-> tipo,
   pregunta |-> pregunta, resultado |-> resultado]


(***************************************************************************)
(* Uploaded files and leer_pdf (app.py 48-57).  A file has a name and the  *)
(* PDF bytes; the bytes either make pypdf raise, or hold pages, each with  *)
(* an extracted text or None.                                              *)
(***************************************************************************)

Corrupto == [ok |-> FALSE]
Paginas(ps) == [ok |-> TRUE, pages |-> ps]

\* texto += page.extract_text() or ""
RECURSIVE TextoDePaginas(_)
TextoDePaginas(ps) ==
  IF ps = <<>> THEN Vacio
  ELSE Cat(IF ps[1].some THEN ps[1].v ELSE Vacio, TextoDePaginas(Tail(ps)))

\* leer_pdf: the text of the pages, or the HTTPException 400.
leer_pdf(file) ==
  IF file.pdf.ok
  THEN [ok |-> TRUE, texto |-> TextoDePaginas(file.pdf.pages)]
  ELSE [ok |-> FALSE, status |-> 400, detail |-> "No se pudo leer el PDF"]

\* The documents a client uploads: a short ruling, one longer than
\* MAX_CHARS_SENTENCIA, one with no extractable text and a corrupt file.
DocA == [filename |-> "a.pdf",
         pdf |-> Paginas(<<Some(Rep("a", 1)), None, Some(Rep("b", 1))>>)]
DocB == [filename |-> "b.pdf",
         pdf |-> Paginas(<<Some(Rep("a", MAX_CHARS_SENTENCIA - 1)),
                           Some(Rep("b", 1 + Exceso))>>)]
DocC == [filename |-> "c.pdf", pdf |-> Corrupto]
DocD == [filename |-> "d.pdf", pdf |-> Paginas(<<None>>)]

Docs == {DocA, DocB, DocC, DocD}

\* The file of a given name (names are distinct in Docs).
DocDe(nombre) == CHOOSE d \in Docs : d.filename = nombre

(***************************************************************************)
(* Helpers for the locals of a request.                                    *)
(***************************************************************************)

\* The locals p with the fields of mas set.
Con(p, mas) == mas @@ p

\* The request ends: the response (or the HTTPException) is sent.
Fin(p, status, resp) == Con(p, [pc |-> "done", status |-> status, resp |-> resp])

\* The request ends with raise HTTPException(status_code, detail).
Error(p, status_code, detail) == Fin(p, status_code, [detail |-> detail])

\* The answer of the provider to the next call: resp.choices[0].message.content,
\* opaque to the program, so one distinct value per call.
Contenido == llamadas + 1

(***************************************************************************)
(* POST /analizar and POST /analizar_json (app.py 203-249).                *)
(***************************************************************************)

\* Variant of the cut that keeps the whole text.
RecortarSin(texto) == texto

\* texto[:MAX_CHARS_SENTENCIA]
Recortar(texto) == PySlice(texto, MAX_CHARS_SENTENCIA)

\* The request arrives; leer_pdf, the cut and construir_prompt (210-212).
\* ids0 is a history field: the session ids of the store at this moment.
Analizar(r, ruta, tipo_analisis, archivo, pregunta) ==
  /\ pet[r].pc = "idle"
  /\ peticiones' = peticiones + 1
  /\ LET p == [pc |-> "llamar", ruta |-> ruta, tipo_analisis |-> tipo_analisis,
               archivo |-> archivo, pregunta |-> pregunta,
               ids0 |-> DOMAIN SESIONES]
         t == leer_pdf(archivo)
     IN  IF ~t.ok
         THEN pet' = [pet EXCEPT ![r] = Error(p, t.status, t.detail)]
         ELSE LET texto_recortado == Recortar(t.texto)
              IN  pet' = [pet EXCEPT ![r] =
                     Con(p, [texto |-> texto_recortado,
                             prompt |-> construir_prompt(tipo_analisis,
                                                         texto_recortado, pregunta)])]
  /\ UNCHANGED <<SESIONES, emitidos, reloj, llamadas, bitacora, entrada, salida>>

\* llamar_modelo returns (148-159); used by the uploads and by /analizar_sesion.
LlamarOk(r) ==
  /\ pet[r].pc = "llamar"
  /\ llamadas' = llamadas + 1
  /\ pet' = [pet EXCEPT ![r] =
       Con(@, [pc |-> IF @.ruta = "analizar_sesion" THEN "registrar" ELSE "crear",
               resultado |-> Contenido])]
  /\ UNCHANGED <<SESIONES, emitidos, reloj, peticiones, bitacora, entrada, salida>>

\* llamar_modelo raises the HTTPException 500 (160-161).
LlamarError(r) ==
  /\ pet[r].pc = "llamar"
  /\ llamadas' = llamadas + 1
  /\ pet' = [pet EXCEPT ![r] = Error(@, 500, "Error al llamar al modelo")]
  /\ UNCHANGED <<SESIONES, emitidos, reloj, peticiones, bitacora, entrada, salida>>

\* session_id = crear_sesion(texto_recortado, archivo.filename) (216, 241).
Crear(r) ==
  /\ pet[r].pc = "crear"
  /\ SESIONES' = crear_sesion(SESIONES, uuid4, reloj, pet[r].texto,
                              pet[r].archivo.filename)
  /\ emitidos' = emitidos + 1
  /\ reloj' = reloj + 1
  /\ bitacora' = Append(bitacora, OpCrear(uuid4, pet[r].texto, pet[r].archivo.filename))
  /\ pet' = [pet EXCEPT ![r] = Con(@, [pc |-> "registrar", session_id |-> uuid4])]
  /\ UNCHANGED <<llamadas, peticiones, entrada, salida>>

\* The response of an upload (220-223, 244-249).
RespuestaAnalizar(p) ==
  IF p.ruta = "analizar"
  THEN [resultado |-> p.resultado, session_id |-> p.session_id]
  ELSE [session_id |-> p.session_id, tipo_analisis |-> p.tipo_analisis,
        archivo |-> p.archivo.filename, resultado |-> p.resultado]

\* Variant of Registrar that writes back the history as it was when the
\* request looked the session up, plus the new record.
RegistrarObsoleto(r) ==
  LET p == pet[r]
      q == [timestamp |-> reloj, tipo_analisis |-> p.tipo_analisis,
            pregunta |-> p.pregunta, resultado |-> p.resultado]
      k == IF p.ruta = "analizar_sesion" THEN p.antes ELSE 0
  IN  /\ p.pc = "registrar"
      /\ SESIONES' = [SESIONES EXCEPT ![p.session_id].consultas =
                        Append(SubSeq(@, 1, k), q)]
      /\ reloj' = reloj + 1
      /\ bitacora' = Append(bitacora, OpRegistrar(p.session_id, p.tipo_analisis,
                                                  p.pregunta, p.resultado))
      /\ pet' = [pet EXCEPT ![r] =
           IF p.ruta = "analizar_sesion"
           THEN Con(p, [pc |-> "responder"])
           ELSE Fin(p, 200, RespuestaAnalizar(p))]
      /\ UNCHANGED <<emitidos, llamadas, peticiones, entrada, salida>>

\* registrar_consulta(session_id, tipo_analisis, pregunta, resultado)
\* (217, 242, 302); an upload then returns its response.
Registrar(r) ==
  LET p == pet[r]
  IN  /\ p.pc = "registrar"
      /\ SESIONES' = registrar_consulta(SESIONES, p.session_id, reloj,
                                        p.tipo_analisis, p.pregunta, p.resultado)
      /\ reloj' = reloj + 1
      /\ bitacora' = Append(bitacora, OpRegistrar(p.session_id, p.tipo_analisis,
                                                  p.pregunta, p.resultado))
      /\ pet' = [pet EXCEPT ![r] =
           IF p.ruta = "analizar_sesion"
           THEN Con(p, [pc |-> "responder"])
           ELSE Fin(p, 200, RespuestaAnalizar(p))]
      /\ UNCHANGED <<emitidos, llamadas, peticiones, entrada, salida>>

(***************************************************************************)
(* POST /analizar_sesion (app.py 289-310).                                 *)
(***************************************************************************)

\* The request arrives; the lookup and construir_prompt (295-299).  antes is
\* a history field: the length of the session's history at this moment.
AnalizarSesion(r, session_id, tipo_analisis, pregunta) ==
  /\ pet[r].pc = "idle"
  /\ peticiones' = peticiones + 1
  /\ LET p == [pc |-> "llamar", ruta |-> "analizar_sesion",
               session_id |-> session_id, tipo_analisis |-> tipo_analisis,
               pregunta |-> pregunta]
     IN  IF session_id \notin DOMAIN SESIONES
         THEN pet' = [pet EXCEPT ![r] = Error(p, 404, "Sesion no encontrada o caducada.")]
         ELSE LET texto == SESIONES[session_id].texto_sentencia
              IN  pet' = [pet EXCEPT ![r] =
                     Con(p, [texto |-> texto,
                             prompt |-> construir_prompt(tipo_analisis, texto, pregunta),
                             antes |-> Len(SESIONES[session_id].consultas)])]
  /\ UNCHANGED <<SESIONES, emitidos, reloj, llamadas, bitacora, entrada, salida>>

\* The response (304-310), built after registrar_consulta has returned.
ResponderSesion(r) ==
  LET p == pet[r]
  IN  /\ p.pc = "responder"
      /\ pet' = [pet EXCEPT ![r] =
           Fin(p, 200,
               [session_id |-> p.session_id, tipo_analisis |-> p.tipo_analisis,
                archivo |-> SESIONES[p.session_id].archivo,
                resultado |-> p.resultado,
                consultas_previas |-> Len(SESIONES[p.session_id].consultas)])]
      /\ UNCHANGED <<SESIONES, emitidos, reloj, llamadas, peticiones, bitacora,
                     entrada, salida>>


(***************************************************************************)
(* POST /analizar_lote (app.py 258-281).  leidos, enviados and ids0 are    *)
(* history fields: the leer_pdf calls and the provider calls of this       *)
(* request, and the session ids of the store when it arrived.              *)
(***************************************************************************)

\* Variant of the cap that also rejects MAX_FILES_LOTE files.
ExcedeLoteDesde(archivos) == Len(archivos) >= MAX_FILES_LOTE

\* len(archivos) > MAX_FILES_LOTE (264)
ExcedeLote(archivos) == Len(archivos) > MAX_FILES_LOTE

\* detail=f"Maximo {MAX_FILES_LOTE} archivos por lote." (265)
DetalleLote == "Maximo 10 archivos por lote."

\* The request arrives; the cap (264-265) and resultados = [] (267).
AnalizarLote(r, tipo_analisis, archivos, pregunta) ==
  /\ pet[r].pc = "idle"
  /\ peticiones' = peticiones + 1
  /\ LET p == [pc |-> "lote_leer", ruta |-> "analizar_lote",
               tipo_analisis |-> tipo_analisis, archivos |-> archivos,
               pregunta |-> pregunta, i |-> 1, resultados |-> <<>>,
               leidos |-> 0, enviados |-> 0, ids0 |-> DOMAIN SESIONES]
     IN  IF ExcedeLote(archivos)
         THEN pet' = [pet EXCEPT ![r] = Error(p, 400, DetalleLote)]
         ELSE pet' = [pet EXCEPT ![r] = p]
  /\ UNCHANGED <<SESIONES, emitidos, reloj, llamadas, bitacora, entrada, salida>>

\* Variant of LoteLeer that skips a file it cannot read and goes on.
LoteLeerTolerante(r) ==
  LET p == pet[r]
      t == leer_pdf(p.archivos[p.i])
  IN  /\ p.pc = "lote_leer"
      /\ p.i <= Len(p.archivos)
      /\ IF ~t.ok
         THEN pet' = [pet EXCEPT ![r] =
                Con(p, [leidos |-> p.leidos + 1, i |-> p.i + 1])]
         ELSE LET texto == Recortar(t.texto)
              IN  pet' = [pet EXCEPT ![r] =
                     Con(p, [pc |-> "lote_llamar", leidos |-> p.leidos + 1,
                             texto |-> texto,
                             prompt |-> construir_prompt(p.tipo_analisis, texto,
                                                         p.pregunta)])]
      /\ UNCHANGED <<SESIONES, emitidos, reloj, llamadas, peticiones, bitacora,
                     entrada, salida>>

\* for a in archivos: leer_pdf(a)[:MAX_CHARS_SENTENCIA], construir_prompt (268-270).
LoteLeer(r) ==
  LET p == pet[r]
      t == leer_pdf(p.archivos[p.i])
  IN  /\ p.pc = "lote_leer"
      /\ p.i <= Len(p.archivos)
      /\ IF ~t.ok
         THEN pet' = [pet EXCEPT ![r] =
                Error(Con(p, [leidos |-> p.leidos + 1]), t.status, t.detail)]
         ELSE LET texto == Recortar(t.texto)
              IN  pet' = [pet EXCEPT ![r] =
                     Con(p, [pc |-> "lote_llamar", leidos |-> p.leidos + 1,
                             texto |-> texto,
                             prompt |-> construir_prompt(p.tipo_analisis, texto,
                                                         p.pregunta)])]
      /\ UNCHANGED <<SESIONES, emitidos, reloj, llamadas, peticiones, bitacora,
                     entrada, salida>>

\* res = llamar_modelo(prompt); resultados.append({...}) (271-275).
LoteLlamarOk(r) ==
  LET p == pet[r]
  IN  /\ p.pc = "lote_llamar"
      /\ llamadas' = llamadas + 1
      /\ pet' = [pet EXCEPT ![r] =
           Con(p, [pc |-> "lote_leer", i |-> p.i + 1, enviados |-> p.enviados + 1,
                   resultados |-> Append(p.resultados,
                                         [archivo |-> p.archivos[p.i].filename,
                                          resultado |-> Contenido])])]
      /\ UNCHANGED <<SESIONES, emitidos, reloj, peticiones, bitacora, entrada, salida>>

\* llamar_modelo raises inside the loop: the request ends with the 500.
LoteLlamarError(r) ==
  LET p == pet[r]
  IN  /\ p.pc = "lote_llamar"
      /\ llamadas' = llamadas + 1
      /\ pet' = [pet EXCEPT ![r] =
           Error(Con(p, [enviados |-> p.enviados + 1]), 500, "Error al llamar al modelo")]
      /\ UNCHANGED <<SESIONES, emitidos, reloj, peticiones, bitacora, entrada, salida>>

\* The loop is over: the response (277-281).
LoteResponder(r) ==
  LET p == pet[r]
  IN  /\ p.pc = "lote_leer"
      /\ p.i > Len(p.archivos)
      /\ pet' = [pet EXCEPT ![r] =
           Fin(p, 200, [tipo_analisis |-> p.tipo_analisis,
                        numero_sentencias |-> Len(p.archivos),
                        resultados |-> p.resultados])]
      /\ UNCHANGED <<SESIONES, emitidos, reloj, llamadas, peticiones, bitacora,
                     entrada, salida>>

(***************************************************************************)
(* GET /sesion/{session_id} (app.py 317-321) and GET / (191-196).          *)
(***************************************************************************)

VerSesion(r, session_id) ==
  /\ pet[r].pc = "idle"
  /\ peticiones' = peticiones + 1
  /\ LET p == [pc |-> "idle", ruta |-> "sesion", session_id |-> session_id]
     IN  pet' = [pet EXCEPT ![r] =
           IF session_id \notin DOMAIN SESIONES
           THEN Error(p, 404, "Sesion no encontrada o caducada.")
           ELSE Fin(p, 200, SESIONES[session_id])]
  /\ UNCHANGED <<SESIONES, emitidos, reloj, llamadas, bitacora, entrada, salida>>

Home(r) ==
  /\ pet[r].pc = "idle"
  /\ peticiones' = peticiones + 1
  /\ pet' = [pet EXCEPT ![r] = Fin([pc |-> "idle", ruta |-> "home"], 200,
                                   [resultado |-> None])]
  /\ UNCHANGED <<SESIONES, emitidos, reloj, llamadas, bitacora, entrada, salida>>

\* The response has been sent: the slot takes the next request.
Liberar(r) ==
  /\ pet[r].pc = "done"
  /\ pet' = [pet EXCEPT ![r] = Libre]
  /\ UNCHANGED <<SESIONES, emitidos, reloj, llamadas, peticiones, bitacora,
                 entrada, salida>>

(***************************************************************************)
(* The inputs of the requests.                                             *)
(***************************************************************************)

Pregunta == Some(Rep("q", 1))

\* (tipo_analisis, pregunta) of the requests of the server specifications.
Consultas == {<<"fallo", None>>, <<"otro", Pregunta>>}

\* Session ids a client may send: those issued so far and one unknown.
IdsCliente == 1..(emitidos + 1)

\* Batches of one or two files.
LotesCortos == {<<DocA>>, <<DocB, DocA>>, <<DocA, DocC>>}

\* A batch of n files that alternates DocA and DocB from offset s, with the
\* corrupt DocC at position k (k = 0: no corrupt file).
Lote(n, s, k) ==
  [j \in 1..n |-> IF j = k THEN DocC ELSE IF (j + s) % 2 = 0 THEN DocA ELSE DocB]

LotesLargos == {Lote(n, s, k) : n \in 1..MaxLote, s \in {0, 1}, k \in {0, 1, 3, MAX_FILES_LOTE}}

(***************************************************************************)
(* Spec: the server as uvicorn runs it.  No handler of app.py awaits, so   *)
(* the event loop runs each request to its end before it takes the next:   *)
(* one request is in progress at a time (slot 1).                          *)
(***************************************************************************)

Llegada(r) ==
  \/ \E c \in Consultas, d \in Docs, ruta \in {"analizar", "analizar_json"} :
       Analizar(r, ruta, c[1], d, c[2])
  \/ \E c \in Consultas, id \in IdsCliente : AnalizarSesion(r, id, c[1], c[2])
  \/ \E c \in Consultas, as \in LotesCortos : AnalizarLote(r, c[1], as, c[2])
  \/ \E id \in IdsCliente : VerSesion(r, id)
  \/ Home(r)

Pasos(r) ==
  \/ LlamarOk(r)
  \/ LlamarError(r)
  \/ Crear(r)
  \/ Registrar(r)
  \/ ResponderSesion(r)
  \/ LoteLeer(r)
  \/ LoteLlamarOk(r)
  \/ LoteLlamarError(r)
  \/ LoteResponder(r)
  \/ Liberar(r)

Next ==
  \/ peticiones < MaxPeticiones /\ Llegada(1)
  \/ Pasos(1)

Spec == Init /\ [][Next]_vars

(***************************************************************************)
(* SpecLote: the same server, with batches of up to MaxLote files.         *)
(***************************************************************************)

LlegadaLote(r) ==
  \/ Analizar(r, "analizar_json", "fallo", DocA, None)
  \/ \E as \in LotesLargos : AnalizarLote(r, "otro", as, Pregunta)

PasosLote(r) ==
  \/ LlamarOk(r)
  \/ LlamarError(r)
  \/ Crear(r)
  \/ Registrar(r)
  \/ LoteLeer(r)
  \/ LoteLlamarOk(r)
  \/ LoteLlamarError(r)
  \/ LoteResponder(r)
  \/ Liberar(r)

NextLote ==
  \/ peticiones < MaxPeticiones /\ LlegadaLote(1)
  \/ PasosLote(1)

SpecLote == Init /\ [][NextLote]_vars

(***************************************************************************)
(* SpecConc: a weaker assumption on the scheduling than Spec makes.  The    *)
(* requests to /analizar_json and /analizar_sesion are handled NumReqs at  *)
(* a time and their steps interleave in every order, as they would with    *)
(* the handlers run in worker threads on the one SESIONES dict.            *)
(***************************************************************************)

LlegadaConc(r) ==
  \/ Analizar(r, "analizar_json", "fallo", DocA, None)
  \/ \E id \in IdsCliente : AnalizarSesion(r, id, "otro", Pregunta)

PasosConc(r) ==
  \/ LlamarOk(r)
  \/ LlamarError(r)
  \/ Crear(r)
  \/ Registrar(r)
  \/ ResponderSesion(r)
  \/ Liberar(r)

NextConc ==
  \E r \in Reqs :
    \/ peticiones < MaxPeticiones /\ LlegadaConc(r)
    \/ PasosConc(r)

SpecConc == Init /\ [][NextConc]_vars

(***************************************************************************)
(* SpecStore: crear_sesion and registrar_consulta called directly, in any  *)
(* order and with any session id, MaxOps times in all.                     *)
(***************************************************************************)

StoreCrear(texto_sentencia, nombre_archivo) ==
  /\ SESIONES' = crear_sesion(SESIONES, uuid4, reloj, texto_sentencia, nombre_archivo)
  /\ emitidos' = emitidos + 1
  /\ reloj' = reloj + 1
  /\ bitacora' = Append(bitacora, OpCrear(uuid4, texto_sentencia, nombre_archivo))
  /\ UNCHANGED <<pet, llamadas, peticiones, entrada, salida>>

StoreRegistrar(session_id, tipo_analisis, pregunta, resultado) ==
  /\ SESIONES' = registrar_consulta(SESIONES, session_id, reloj, tipo_analisis,
                                    pregunta, resultado)
  /\ reloj' = reloj + 1
  /\ bitacora' = Append(bitacora, OpRegistrar(session_id, tipo_analisis, pregunta,
                                              resultado))
  /\ UNCHANGED <<pet, emitidos, llamadas, peticiones, entrada, salida>>

NextStore ==
  /\ Len(bitacora) < MaxOps
  /\ \/ \E d \in {DocA, DocD} : StoreCrear(leer_pdf(d).texto, d.filename)
     \/ \E id \in IdsCliente, c \in Consultas, res \in {"r1", "r2"} :
          StoreRegistrar(id, c[1], c[2], res)

SpecStore == Init /\ [][NextStore]_vars

(***************************************************************************)
(* SpecPrompt: construir_prompt applied to each category, text and         *)
(* question of the sets below.                                             *)
(***************************************************************************)

TiposPrompt == {"sujetos", "ratio", "normativa", "fallo", "consecuencia", "otro",
                "general", "unknown_xyz"}

TextosPrompt == {Vacio, NL, leer_pdf(DocA).texto, Cat(Rep("a", 2), NL),
                 Recortar(leer_pdf(DocB).texto)}

PreguntasPrompt == {None, Some(Vacio), Some(Cat(Rep(" ", 2), NL)), Pregunta,
                    Some(CatAll(<<Rep(" ", 1), Rep("q", 1), NL>>))}

InitPrompt ==
  /\ Arranque
  /\ entrada \in [tipo : TiposPrompt, texto : TextosPrompt, pregunta : PreguntasPrompt]

ConstruirPrompt ==
  /\ salida = None
  /\ salida' = Some(construir_prompt(entrada.tipo, entrada.texto, entrada.pregunta))
  /\ UNCHANGED <<SESIONES, pet, emitidos, reloj, llamadas, peticiones, bitacora,
                 entrada>>

NextPrompt == ConstruirPrompt

SpecPrompt == InitPrompt /\ [][NextPrompt]_vars

(***************************************************************************)
(* Properties of construir_prompt (SpecPrompt).                            *)
(***************************************************************************)

\* A question that is missing, empty or made of white space only.
EnBlanco(q) == ~q.some \/ \A j \in 1..Len(q.v) : q.v[j][1] \in Blancos

\* C3, as stated: for every category, question and text, the prompt that
\* construir_prompt returns ends with the full document text.
C3_PromptTerminaEnTexto ==
  salida.some => PyEndsWith(salida.v, entrada.texto)

\* C3, amended: the prompt ends with the full document text followed by one
\* line break, except for the category "otro" with a question in blank, where
\* the prompt is the fixed string of lines 122-125 whatever the text.
C3_PromptTerminaEnTextoYSalto ==
  salida.some =>
    IF entrada.tipo = "otro" /\ EnBlanco(entrada.pregunta)
    THEN salida.v = PromptSinPregunta
    ELSE PyEndsWith(salida.v, Cat(entrada.texto, NL))

\* C3, witness: a prompt built for "otro" with a white-space question from a
\* text of MAX_CHARS_SENTENCIA characters.
C3_Testigo ==
  /\ salida.some
  /\ entrada.tipo = "otro"
  /\ entrada.pregunta.some /\ entrada.pregunta.v # Vacio /\ EnBlanco(entrada.pregunta)
  /\ PyLen(entrada.texto) = MAX_CHARS_SENTENCIA

(***************************************************************************)
(* Properties of the store operations (SpecStore).                         *)
(***************************************************************************)

\* The fields of a history record that the caller passed.
Campos(q) ==
  [tipo_analisis |-> q.tipo_analisis, pregunta |-> q.pregunta,
   resultado |-> q.resultado]

\* The records passed to registrar_consulta for session id since the
\* crear_sesion call that returned id, in call order.
Registradas(id) ==
  LET pos == CHOOSE i \in 1..Len(bitacora) :
               bitacora[i].op = "crear" /\ bitacora[i].session_id = id
      EsDeId(e) == e.op = "registrar" /\ e.session_id = id
      es == SelectSeq(SubSeq(bitacora, pos + 1, Len(bitacora)), EsDeId)
  IN  [j \in 1..Len(es) |-> Campos(es[j])]

\* C6: the history of each session is exactly the sequence of records
\* appended to that session, in call order and with the fields as passed.
C6_HistorialEsLoRegistrado ==
  \A id \in DOMAIN SESIONES :
    [j \in 1..Len(SESIONES[id].consultas) |-> Campos(SESIONES[id].consultas[j])]
      = Registradas(id)

\* C6, witness: a session with three records, neighbours different.
C6_Testigo ==
  \E id \in DOMAIN SESIONES :
    LET h == SESIONES[id].consultas
    IN  /\ Len(h) = 3
        /\ Campos(h[1]) # Campos(h[2])
        /\ Campos(h[2]) # Campos(h[3])

\* The last store operation performed.
UltimaOp == bitacora[Len(bitacora)]

\* C8: registrar_consulta with a session id that is not in the store returns
\* and leaves the store as it was: no session is created for the id and no
\* existing session changes.
C8_RegistrarDesconocidaNoCambiaNada ==
  [][ ( /\ bitacora' # bitacora
        /\ bitacora'[Len(bitacora')].op = "registrar"
        /\ bitacora'[Len(bitacora')].session_id \notin DOMAIN SESIONES )
      => SESIONES' = SESIONES ]_vars

\* C8, witness: the last operation was registrar_consulta with an id that the
\* store does not hold, while the store holds a session with a history.
C8_Testigo ==
  /\ bitacora # <<>>
  /\ UltimaOp.op = "registrar"
  /\ UltimaOp.session_id \notin DOMAIN SESIONES
  /\ \E id \in DOMAIN SESIONES : SESIONES[id].consultas # <<>>

(***************************************************************************)
(* Properties of the request handlers.                                     *)
(***************************************************************************)

\* A request of the given routes that has ended with the given status.
Terminada(r, rutas, status) ==
  /\ pet[r].pc = "done"
  /\ pet[r].ruta \in rutas
  /\ pet[r].status = status

Subidas == {"analizar", "analizar_json"}

\* C1: /analizar_sesion on an existing session reports as consultas_previas
\* the length the session's history had when the request started.
C1_ConsultasPreviasEsLongitudAnterior ==
  \A r \in Reqs :
    Terminada(r, {"analizar_sesion"}, 200) =>
      pet[r].resp.consultas_previas = pet[r].antes

\* C2, as stated: every document analysed through /analizar, /analizar_json
\* or /analizar_lote adds exactly one new session to the store.
C2_UnaSesionPorDocumento ==
  \A r \in Reqs :
    /\ Terminada(r, Subidas, 200) =>
         /\ pet[r].ids0 \subseteq DOMAIN SESIONES
         /\ Cardinality(DOMAIN SESIONES \ pet[r].ids0) = 1
    /\ Terminada(r, {"analizar_lote"}, 200) =>
         /\ pet[r].ids0 \subseteq DOMAIN SESIONES
         /\ Cardinality(DOMAIN SESIONES \ pet[r].ids0) = Len(pet[r].archivos)

\* C2, amended: every document analysed through /analizar or /analizar_json
\* adds exactly one new session, under an id the store did not hold and with
\* the file's name, whether or not the file was uploaded before;
\* /analizar_lote adds no session.
C2_UnaSesionPorSubida ==
  \A r \in Reqs :
    /\ Terminada(r, Subidas, 200) =>
         /\ pet[r].session_id \notin pet[r].ids0
         /\ DOMAIN SESIONES = pet[r].ids0 \cup {pet[r].session_id}
         /\ pet[r].resp.session_id = pet[r].session_id
         /\ SESIONES[pet[r].session_id].archivo = pet[r].archivo.filename
    /\ Terminada(r, {"analizar_lote"}, 200) => DOMAIN SESIONES = pet[r].ids0

\* C2, witness: an upload has ended, of a file whose earlier upload already
\* has a session with the same text.
C2_Testigo ==
  \E r \in Reqs :
    /\ Terminada(r, Subidas, 200)
    /\ \E id \in pet[r].ids0 :
         /\ SESIONES[id].archivo = pet[r].archivo.filename
         /\ SESIONES[id].texto_sentencia = SESIONES[pet[r].session_id].texto_sentencia

\* The text extracted from the uploaded file of a given name.
TextoExtraido(nombre) == leer_pdf(DocDe(nombre)).texto

\* t is the first min(len(original), MAX_CHARS_SENTENCIA) characters of original.
EsRecorte(t, original) ==
  /\ PyLen(t) <= MAX_CHARS_SENTENCIA
  /\ PyLen(t) = Min(PyLen(original), MAX_CHARS_SENTENCIA)
  /\ EsPrefijo(t, original)

\* The extracted text behind the prompt that request r is about to send.
Fuente(r) ==
  CASE pet[r].ruta = "analizar_sesion" ->
         TextoExtraido(SESIONES[pet[r].session_id].archivo)
    [] pet[r].ruta = "analizar_lote" ->
         leer_pdf(pet[r].archivos[pet[r].i]).texto
    [] OTHER -> leer_pdf(pet[r].archivo).texto

\* C9: the text stored in every session, and the text embedded in every
\* prompt on its way to the provider, has at most MAX_CHARS_SENTENCIA
\* characters and is the first min(len, MAX_CHARS_SENTENCIA) characters of
\* the text extracted from the uploaded document.
C9_TextoRecortado ==
  /\ \A id \in DOMAIN SESIONES :
       EsRecorte(SESIONES[id].texto_sentencia, TextoExtraido(SESIONES[id].archivo))
  /\ \A r \in Reqs :
       pet[r].pc \in {"llamar", "lote_llamar"} =>
         /\ EsRecorte(pet[r].texto, Fuente(r))
         /\ ~(pet[r].tipo_analisis = "otro" /\ EnBlanco(pet[r].pregunta)) =>
              PyEndsWith(pet[r].prompt, Cat(pet[r].texto, NL))

\* C9, witness: a follow-up prompt is on its way for a session whose document
\* had more than MAX_CHARS_SENTENCIA characters.
C9_Testigo ==
  \E r \in Reqs :
    /\ pet[r].pc = "llamar"
    /\ pet[r].ruta = "analizar_sesion"
    /\ PyLen(Fuente(r)) > MAX_CHARS_SENTENCIA
    /\ PyLen(pet[r].texto) = MAX_CHARS_SENTENCIA

\* h is an initial part of the sequence g.
EsInicio(h, g) == Len(h) <= Len(g) /\ SubSeq(g, 1, Len(h)) = h

\* C10: no step removes a session or changes its texto_sentencia, archivo or
\* created_at; the only change to an existing session is records added at
\* the end of its history.
C10_SesionSoloCrece ==
  [][ \A id \in DOMAIN SESIONES :
        /\ id \in DOMAIN SESIONES'
        /\ SESIONES'[id].texto_sentencia = SESIONES[id].texto_sentencia
        /\ SESIONES'[id].archivo = SESIONES[id].archivo
        /\ SESIONES'[id].created_at = SESIONES[id].created_at
        /\ EsInicio(SESIONES[id].consultas, SESIONES'[id].consultas) ]_vars

\* C10, witness: a session with two records, and a session created after it.
C10_Testigo ==
  \E id, otra \in DOMAIN SESIONES :
    /\ Len(SESIONES[id].consultas) = 2
    /\ SESIONES[id].created_at < SESIONES[otra].created_at

(***************************************************************************)
(* Properties of the batch (SpecLote).                                     *)
(***************************************************************************)

\* C4: a batch of more than MAX_FILES_LOTE files ends with the 400 of the cap
\* as it arrives, with no PDF read, no provider call, no answer and the store
\* as it was; a batch of at most MAX_FILES_LOTE files is never ended by the cap.
C4_LoteExcesivoFallaAntes ==
  [][ \A r \in Reqs :
        /\ ( /\ pet[r].pc = "idle"
             /\ pet'[r].pc # "idle"
             /\ pet'[r].ruta = "analizar_lote" ) =>
             IF Len(pet'[r].archivos) > MAX_FILES_LOTE
             THEN /\ pet'[r].pc = "done"
                  /\ pet'[r].status = 400
                  /\ pet'[r].resp = [detail |-> DetalleLote]
                  /\ pet'[r].leidos = 0
                  /\ pet'[r].enviados = 0
                  /\ llamadas' = llamadas
                  /\ SESIONES' = SESIONES
             ELSE pet'[r].pc # "done"
        /\ ( /\ pet'[r].pc = "done"
             /\ pet'[r].ruta = "analizar_lote"
             /\ pet'[r].resp = [detail |-> DetalleLote] ) =>
             Len(pet'[r].archivos) > MAX_FILES_LOTE ]_vars

\* C4, witness: a batch of MAX_FILES_LOTE + 1 files has been rejected while
\* the store holds a session.
C4_Testigo ==
  \E r \in Reqs :
    /\ Terminada(r, {"analizar_lote"}, 400)
    /\ Len(pet[r].archivos) = MAX_FILES_LOTE + 1
    /\ pet[r].leidos = 0
    /\ DOMAIN SESIONES # {}

\* C5: a batch returns one {archivo, resultado} entry per file, in the order
\* of the files, or it ends in an error and returns no answer; a failure at
\* file i ends the request with the answers of files 1..i-1 discarded and
\* the files after i neither read nor sent.
C5_LoteTodoONada ==
  \A r \in Reqs :
    (pet[r].pc = "done" /\ pet[r].ruta = "analizar_lote") =>
      LET p == pet[r]
          n == Len(p.archivos)
      IN  IF p.status = 200
          THEN /\ Len(p.resp.resultados) = n
               /\ p.resp.numero_sentencias = n
               /\ \A j \in 1..n : p.resp.resultados[j].archivo = p.archivos[j].filename
               /\ \A j, k \in 1..n :
                    j < k => p.resp.resultados[j].resultado < p.resp.resultados[k].resultado
               /\ p.leidos = n /\ p.enviados = n
          ELSE /\ DOMAIN p.resp = {"detail"}
               /\ \/ n > MAX_FILES_LOTE /\ p.leidos = 0 /\ p.enviados = 0
                  \/ /\ p.status = 400
                     /\ ~leer_pdf(p.archivos[p.i]).ok
                     /\ p.leidos = p.i /\ p.enviados = p.i - 1
                  \/ /\ p.status = 500
                     /\ p.leidos = p.i /\ p.enviados = p.i

\* C5, witness: a batch has ended on a file it could not read, after two or
\* more answers and with files left.
C5_Testigo ==
  \E r \in Reqs :
    /\ Terminada(r, {"analizar_lote"}, 400)
    /\ pet[r].i >= 3
    /\ pet[r].i < Len(pet[r].archivos)
    /\ Len(pet[r].resultados) = pet[r].i - 1

(***************************************************************************)
(* Properties of concurrent requests (SpecConc).                           *)
(***************************************************************************)

\* The number of registrar_consulta calls made for session id.
NumRegistradas(id) ==
  LET EsDeId(e) == e.op = "registrar" /\ e.session_id = id
  IN  Len(SelectSeq(bitacora, EsDeId))

\* Request r is an /analizar_sesion request on session id that has made its
\* registrar_consulta call (a request whose provider call raised makes none).
HaRegistrado(r, id) ==
  /\ pet[r].pc \in {"responder", "done"}
  /\ pet[r].ruta = "analizar_sesion"
  /\ pet[r].session_id = id
  /\ "resultado" \in DOMAIN pet[r]

\* C7: whatever the interleaving of the steps of concurrent requests, the
\* history of a session has exactly one record per request that has appended
\* to it, none lost and none there twice: N /analizar_sesion requests on the
\* same session leave N records more than the history had when the first of
\* them looked the session up.
C7_UnRegistroPorPeticion ==
  \A id \in DOMAIN SESIONES :
    LET h == SESIONES[id].consultas
    IN  /\ Len(h) = NumRegistradas(id)
        /\ \A r \in Reqs :
             HaRegistrado(r, id) =>
               Cardinality({j \in 1..Len(h) : h[j].resultado = pet[r].resultado}) = 1
        /\ \A R \in SUBSET Reqs :
             (R # {} /\ \A r \in R : HaRegistrado(r, id)) =>
               \E r0 \in R : Len(h) >= pet[r0].antes + Cardinality(R)

\* C7, witness: two requests on the same session have both ended, each
\* having looked the session up before the other appended.
C7_Testigo ==
  \E r1, r2 \in Reqs :
    /\ r1 # r2
    /\ Terminada(r1, {"analizar_sesion"}, 200)
    /\ Terminada(r2, {"analizar_sesion"}, 200)
    /\ pet[r1].session_id = pet[r2].session_id
    /\ pet[r1].antes = pet[r2].antes
    /\ Len(SESIONES[pet[r1].session_id].consultas) = pet[r1].antes + 2

====
